---------------------------- MODULE Spec2Model ----------------------------
(***************************************************************************)
(* Model of the UNIZIK academic assistant bot (src/main.py).               *)
(*                                                                         *)
(* A Python str is modelled as a sequence of characters, each character a  *)
(* one-character TLA+ string; a character outside ASCII is written by its  *)
(* code point ("U+0131" is the dotless i, "U+2014" the em dash).           *)
(*                                                                         *)
(* The process runs one asyncio event loop (main, run_polling).  Updates   *)
(* wait in the application's FIFO update queue; handle_message runs on the *)
(* loop and is modelled in the pieces between which the outside world can  *)
(* act: from its start up to the reply or up to the call of ask_gemini,    *)
(* and from the return (or exception) of ask_gemini to the reply.          *)
(***************************************************************************)
EXTENDS Naturals, Sequences, FiniteSets

VARIABLES
    text,      \* text[m]: update.message.text or "" of message m
    pc,        \* pc[m]: "idle" (not sent yet), "queued", "backend", "done"
    queue,     \* the application's update queue: message ids, oldest first
    loop,      \* the message whose handler holds the event loop inside the
               \* synchronous ask_gemini call, 0 when the loop is free
    replies,   \* replies[m]: the reply_text calls made for m, in order
    calls,     \* calls[m]: generate_content calls made for m
    logged,    \* logged[m]: logging.exception records written for m
    raised,    \* raised[m]: handle_message left by an uncaught exception
    resp,      \* resp[m]: what generate_content returned for m (NoResp before)
    err        \* err[m]: what generate_content raised for m ("none" before)

vars == <<text, pc, queue, loop, replies, calls, logged, raised, resp, err>>

-----------------------------------------------------------------------------
(* Bounds of the model *)

\* messages sent to the bot in one run
MaxMsgs == 2
\* fragments concatenated into one input text
MaxFrags == 2
\* whitespace characters around a backend output
MaxPad == 2

Msgs == 1..MaxMsgs

-----------------------------------------------------------------------------
(* Characters and str methods *)

LowerLetters == <<"a","b","c","d","e","f","g","h","i","j","k","l","m","n","o","p","q","r",
        "s","t","u","v","w","x","y","z">>
UpperLetters == <<"A","B","C","D","E","F","G","H","I","J","K","L","M","N","O","P","Q","R",
        "S","T","U","V","W","X","Y","Z">>
Digits == <<"0","1","2","3","4","5","6","7","8","9">>

Range(s) == {s[i] : i \in 1..Len(s)}

IndexIn(c, s) == CHOOSE i \in 1..Len(s) : s[i] = c

\* str.isspace() of one character (the set str.strip() and \s remove)
IsSpace(c) == c \in {" ", "\n", "\t", "\r"}

\* \w of a str pattern: alphanumeric in Unicode, or the underscore
IsWordChar(c) ==
    c \in Range(LowerLetters) \cup Range(UpperLetters) \cup Range(Digits)
          \cup {"_", "U+0131"}

\* str.lower() of one character: A-Z go to a-z; the dotless i is lower case
\* already and stays
LowerChar(c) ==
    IF c \in Range(UpperLetters) THEN LowerLetters[IndexIn(c, UpperLetters)]
    ELSE c

\* str.lower()
Lower(s) == [i \in 1..Len(s) |-> LowerChar(s[i])]

\* p in t, for two str
Contains(t, p) ==
    \E i \in 0..(Len(t) - Len(p)) : \A j \in 1..Len(p) : t[i + j] = p[j]

\* the first index from i on whose character is not whitespace
RECURSIVE FirstNonSpace(_, _)
FirstNonSpace(s, i) ==
    IF i > Len(s) THEN i
    ELSE IF IsSpace(s[i]) THEN FirstNonSpace(s, i + 1) ELSE i

\* the last index up to i whose character is not whitespace, 0 if none
RECURSIVE LastNonSpace(_, _)
LastNonSpace(s, i) ==
    IF i < 1 THEN 0
    ELSE IF IsSpace(s[i]) THEN LastNonSpace(s, i - 1) ELSE i

\* str.strip(): leading and trailing whitespace removed
Strip(s) == SubSeq(s, FirstNonSpace(s, 1), LastNonSpace(s, Len(s)))

\* s[:n]
Slice(s, n) == SubSeq(s, 1, IF n < Len(s) THEN n ELSE Len(s))

-----------------------------------------------------------------------------
(* Configuration and the classifier's tables *)

CREATOR_NAME == <<"O","K","A","F","O","R"," ","E","M","M","A","N","U","E","L"," ","I","K",
        "E">>
CREATOR_WHATSAPP == <<"h","t","t","p","s",":","/","/","w","a",".","l","i","n","k","/","i","7",
        "s","2","l","h">>

EDU_KEYWORDS == {
    <<"d","e","f","i","n","e">>, <<"d","e","f","i","n","i","t","i","o","n">>, <<"e","x","p","l","a","i","n">>, <<"w","h","a","t">>, <<"w","h","y">>, <<"h","o","w">>,
    <<"s","o","l","v","e">>, <<"c","a","l","c","u","l","a","t","e">>, <<"t","h","e","o","r","e","m">>, <<"p","r","o","o","f">>, <<"e","x","a","m","p","l","e">>,
    <<"s","y","l","l","a","b","u","s">>, <<"l","e","c","t","u","r","e">>, <<"c","o","u","r","s","e">>, <<"e","x","a","m">>, <<"p","a","s","t"," ","q","u","e","s","t","i","o","n">>,
    <<"a","s","s","i","g","n","m","e","n","t">>, <<"l","e","c","t","u","r","e"," ","n","o","t","e","s">>, <<"t","u","t","o","r","i","a","l">>, <<"l","a","b">>, <<"p","r","a","c","t","i","c","a","l">>,
    <<"e","s","s","a","y">>, <<"r","e","a","d","i","n","g">>, <<"u","n","i","z","i","k">>, <<"n","n","a","m","d","i"," ","a","z","i","k","i","w","e">>,
    <<"n","n","a","m","d","i"," ","a","z","i","k","i","w","e"," ","u","n","i",
        "v","e","r","s","i","t","y">>, <<"f","a","c","u","l","t","y">>, <<"d","e","p","a","r","t","m","e","n","t">>,
    <<"s","e","m","e","s","t","e","r">>, <<"r","e","s","u","l","t">>, <<"t","i","m","e","t","a","b","l","e">> }

\* the two substrings tested first by is_educational
InstitutionMarkers == { <<"u","n","i","z","i","k">>, <<"n","n","a","m","d","i"," ","a","z","i","k","i","w","e">> }

\* the alternation of the regular expression of is_educational
LeadWords == {
    <<"w","h","a","t">>, <<"w","h","y">>, <<"h","o","w">>, <<"e","x","p","l","a","i","n">>, <<"d","e","f","i","n","e">>, <<"s","h","o","w">>,
    <<"c","o","m","p","a","r","e">>, <<"c","a","l","c","u","l","a","t","e">> }

CreatorPhrases == {
    <<"w","h","o"," ","c","r","e","a","t","e","d"," ","y","o","u">>, <<"w","h","o"," ","m","a","d","e"," ","y","o","u">>, <<"w","h","o"," ","d","e","v","e","l","o","p","e","d"," ","y","o","u">>,
    <<"w","h","o"," ","i","s"," ","y","o","u","r"," ","c","r","e","a","t","o",
        "r">>, <<"y","o","u","r"," ","c","r","e","a","t","o","r">> }

CreatorInfoPhrases == {
    <<"c","r","e","a","t","o","r"," ","i","n","f","o">>, <<"o","w","n","e","r"," ","i","n","f","o">>, <<"c","o","n","t","a","c","t"," ","t","h","e"," ","c","r","e","a","t","o",
        "r">>,
    <<"c","o","n","t","a","c","t"," ","i","n","f","o">>, <<"w","h","o"," ","i","s"," ","o","k","a","f","o","r">>, <<"h","o","w"," ","t","o"," ","c","o","n","t","a","c","t"," ","o","k","a",
        "f","o","r">>,
    <<"m","y"," ","i","n","f","o">> }

-----------------------------------------------------------------------------
(* The classifier *)

\* re.search(r"^\s*(what|...|calculate)\b", t): \s* takes k leading
\* whitespace characters, a lead word follows, and \b holds after it: the
\* text ends there or goes on with a character that is not \w
LeadWordMatch(t) ==
    \E k \in 0..Len(t) :
        /\ \A i \in 1..k : IsSpace(t[i])
        /\ \E w \in LeadWords :
              /\ k + Len(w) <= Len(t)
              /\ \A j \in 1..Len(w) : t[k + j] = w[j]
              /\ \/ k + Len(w) = Len(t)
                 \/ ~IsWordChar(t[k + Len(w) + 1])

\* LeadWordMatch without the \b of the pattern
LeadWordMatchNoBoundary(t) ==
    \E k \in 0..Len(t) :
        /\ \A i \in 1..k : IsSpace(t[i])
        /\ \E w \in LeadWords :
              /\ k + Len(w) <= Len(t)
              /\ \A j \in 1..Len(w) : t[k + j] = w[j]

\* is_educational with that pattern
is_educational_no_boundary(txt) ==
    LET t == Lower(txt)
    IN  IF \E mk \in InstitutionMarkers : Contains(t, mk) THEN TRUE
        ELSE IF LeadWordMatchNoBoundary(t) THEN TRUE
        ELSE IF \E kw \in EDU_KEYWORDS : Contains(t, kw) THEN TRUE
        ELSE FALSE

is_educational(txt) ==
    LET t == Lower(txt)
    IN  IF \E mk \in InstitutionMarkers : Contains(t, mk) THEN TRUE
        ELSE IF LeadWordMatch(t) THEN TRUE
        ELSE IF \E kw \in EDU_KEYWORDS : Contains(t, kw) THEN TRUE
        ELSE FALSE

\* is_creator_query without text.lower()
is_creator_query_case_sensitive(txt) ==
    \E phrase \in CreatorPhrases : Contains(txt, phrase)

is_creator_query(txt) ==
    LET t == Lower(txt)
    IN  \E phrase \in CreatorPhrases : Contains(t, phrase)

is_creator_info_query(txt) ==
    LET t == Lower(txt)
    IN  \E phrase \in CreatorInfoPhrases : Contains(t, phrase)

\* Classify with the contact check placed before the identity check
ClassifyContactFirst(txt) ==
    IF is_creator_info_query(txt) THEN "CreatorContact"
    ELSE IF is_creator_query(txt) THEN "CreatorIdentity"
    ELSE IF ~is_educational(txt) THEN "Rejected"
    ELSE "Educational"

\* The branch of handle_message a text takes, under the names of the
\* four intents
Classify(txt) ==
    IF is_creator_query(txt) THEN "CreatorIdentity"
    ELSE IF is_creator_info_query(txt) THEN "CreatorContact"
    ELSE IF ~is_educational(txt) THEN "Rejected"
    ELSE "Educational"

-----------------------------------------------------------------------------
(* The replies and the backend call *)

IdentityReply == <<"I"," ","w","a","s"," ","c","r","e","a","t","e","d"," ","b","y"," ">> \o CREATOR_NAME \o <<".">>

ContactReply ==
    <<"C","o","n","t","a","c","t"," ","t","h","e"," ","c","r","e","a","t","o",
        "r",":"," ">> \o CREATOR_NAME \o <<"\n","W","h","a","t","s","A","p","p",":"," ">>
        \o CREATOR_WHATSAPP

RefusalReply ==
    <<"I"," ","c","a","n"," ","o","n","l","y"," ","h","e","l","p"," ","w","i",
        "t","h"," ","e","d","u","c","a","t","i","o","n","a","l"," ","q","u","e",
        "s","t","i","o","n","s"," ","o","r"," ","U","N","I","Z","I","K","-","r",
        "e","l","a","t","e","d"," ","a","c","a","d","e","m","i","c"," ","t","o",
        "p","i","c","s","."," ","P","l","e","a","s","e"," ","a","s","k"," ","a",
        " ","q","u","e","s","t","i","o","n"," ","a","b","o","u","t"," ","a"," ",
        "c","o","u","r","s","e",","," ","c","o","n","c","e","p","t",","," ","s",
        "y","l","l","a","b","u","s",","," ","e","x","a","m",","," ","o","r"," ",
        "U","N","I","Z","I","K","-","s","p","e","c","i","f","i","c"," ","i","n",
        "f","o",".">>

ApologyReply == <<"S","o","r","r","y"," ","U+2014"," ","I"," ","c","o","u","l","d","n","'","t",
        " ","r","e","a","c","h"," ","t","h","e"," ","A","I"," ","s","e","r","v",
        "i","c","e"," ","r","i","g","h","t"," ","n","o","w",".">>

TruncationMarker == <<"\n","\n","[","a","n","s","w","e","r"," ","t","r","u","n","c","a","t","e",
        "d","]">>

\* len(answer) > 4000
MaxReplyLen == 4000
\* answer[:3990]
CutLen == 3990

\* FixedReplies with the rejection branch returning without a reply
FixedRepliesSilentReject(intent) ==
    CASE intent = "CreatorIdentity" -> <<IdentityReply>>
      [] intent = "CreatorContact" -> <<ContactReply>>
      [] intent = "Rejected" -> <<>>

\* The reply_text calls handle_message makes on a branch that returns
\* before the backend is asked
FixedReplies(intent) ==
    CASE intent = "CreatorIdentity" -> <<IdentityReply>>
      [] intent = "CreatorContact" -> <<ContactReply>>
      [] intent = "Rejected" -> <<RefusalReply>>

\* The response object of generate_content, by the two attributes ask_gemini
\* reads: text (<<>> when the attribute is missing, None or ""), and output,
\* the str() of resp.output or of resp itself
NoResp == [text |-> <<>>, output |-> <<>>]

\* The return value of ask_gemini for response r
ask_gemini(r) ==
    IF r.text # <<>> THEN Strip(r.text) ELSE Strip(r.output)

\* Trim with the test len(answer) >= 4000
TrimAtLimit(answer) ==
    IF Len(answer) >= MaxReplyLen
    THEN Slice(answer, CutLen) \o TruncationMarker
    ELSE answer

\* "reply (trim if too long)"
Trim(answer) ==
    IF Len(answer) > MaxReplyLen
    THEN Slice(answer, CutLen) \o TruncationMarker
    ELSE answer

\* What generate_content raises when it fails: every one a subclass of
\* Exception
BackendErrors ==
    {"TimeoutError", "ClientError", "ServerError"}

\* except TimeoutError as e
CatchesTimeoutOnly(e) == e = "TimeoutError"

\* except Exception as e: every exception but the ones derived from
\* BaseException alone
Catches(e) ==
    e \notin {"KeyboardInterrupt", "SystemExit", "GeneratorExit",
              "CancelledError"}

-----------------------------------------------------------------------------
(* The process *)

Init ==
    /\ text = [m \in Msgs |-> <<>>]
    /\ pc = [m \in Msgs |-> "idle"]
    /\ queue = <<>>
    /\ loop = 0
    /\ replies = [m \in Msgs |-> <<>>]
    /\ calls = [m \in Msgs |-> 0]
    /\ logged = [m \in Msgs |-> 0]
    /\ raised = [m \in Msgs |-> FALSE]
    /\ resp = [m \in Msgs |-> NoResp]
    /\ err = [m \in Msgs |-> "none"]

\* A user sends message m with a text of T; the updater puts the update in
\* the queue.  Messages are numbered in the order they arrive.
Receive(m, T) ==
    /\ pc[m] = "idle"
    /\ IF m = 1 THEN TRUE ELSE pc[m - 1] # "idle"
    /\ \E t \in T : text' = [text EXCEPT ![m] = t]
    /\ pc' = [pc EXCEPT ![m] = "queued"]
    /\ queue' = Append(queue, m)
    /\ UNCHANGED <<loop, replies, calls, logged, raised, resp, err>>

\* The event loop takes the oldest update and runs handle_message on it, up
\* to the return of one of the first three branches or up to the call of
\* ask_gemini.  ask_gemini is an ordinary function called without await:
\* the handler keeps the event loop until it returns.
Start(m) ==
    /\ loop = 0
    /\ queue # <<>>
    /\ m = Head(queue)
    /\ queue' = Tail(queue)
    /\ LET intent == Classify(text[m])
       IN  IF intent # "Educational"
           THEN /\ replies' = [replies EXCEPT ![m] = @ \o FixedReplies(intent)]
                /\ pc' = [pc EXCEPT ![m] = "done"]
                /\ UNCHANGED <<loop, calls>>
           ELSE /\ calls' = [calls EXCEPT ![m] = @ + 1]
                /\ loop' = m
                /\ pc' = [pc EXCEPT ![m] = "backend"]
                /\ UNCHANGED replies
    /\ UNCHANGED <<text, logged, raised, resp, err>>

\* generate_content returns a response of R: ask_gemini returns its text,
\* handle_message trims it and replies
BackendSuccess(m, R) ==
    /\ pc[m] = "backend"
    /\ \E r \in R :
          /\ resp' = [resp EXCEPT ![m] = r]
          /\ replies' = [replies EXCEPT ![m] = Append(@, Trim(ask_gemini(r)))]
    /\ pc' = [pc EXCEPT ![m] = "done"]
    /\ loop' = 0
    /\ UNCHANGED <<text, queue, calls, logged, raised, err>>

\* BackendFailure with one automatic retry of the call
BackendFailureRetry(m) ==
    /\ pc[m] = "backend"
    /\ \E e \in BackendErrors :
          /\ err' = [err EXCEPT ![m] = e]
          /\ IF calls[m] < 2
             THEN /\ calls' = [calls EXCEPT ![m] = @ + 1]
                  /\ UNCHANGED <<logged, replies, raised, pc, loop>>
             ELSE /\ logged' = [logged EXCEPT ![m] = @ + 1]
                  /\ replies' = [replies EXCEPT ![m] = Append(@, ApologyReply)]
                  /\ pc' = [pc EXCEPT ![m] = "done"]
                  /\ loop' = 0
                  /\ UNCHANGED <<raised, calls>>
    /\ UNCHANGED <<text, queue, resp>>

\* BackendFailure with the except clause logging and raising again
BackendFailureReraise(m) ==
    /\ pc[m] = "backend"
    /\ \E e \in BackendErrors :
          /\ err' = [err EXCEPT ![m] = e]
          /\ logged' = [logged EXCEPT ![m] = @ + 1]
          /\ raised' = [raised EXCEPT ![m] = TRUE]
    /\ pc' = [pc EXCEPT ![m] = "done"]
    /\ loop' = 0
    /\ UNCHANGED <<text, queue, calls, resp, replies>>

\* generate_content raises: the except clause logs and sends the apology
BackendFailure(m) ==
    /\ pc[m] = "backend"
    /\ \E e \in BackendErrors :
          /\ err' = [err EXCEPT ![m] = e]
          /\ IF Catches(e)
             THEN /\ logged' = [logged EXCEPT ![m] = @ + 1]
                  /\ replies' = [replies EXCEPT ![m] = Append(@, ApologyReply)]
                  /\ UNCHANGED raised
             ELSE /\ raised' = [raised EXCEPT ![m] = TRUE]
                  /\ UNCHANGED <<logged, replies>>
    /\ pc' = [pc EXCEPT ![m] = "done"]
    /\ loop' = 0
    /\ UNCHANGED <<text, queue, calls, resp>>

-----------------------------------------------------------------------------
(* Inputs *)

\* str.upper() of one character of the alphabet: a-z go to A-Z, and the
\* dotless i goes to I
UpperChar(c) ==
    IF c \in Range(LowerLetters) THEN UpperLetters[IndexIn(c, LowerLetters)]
    ELSE IF c = "U+0131" THEN "I"
    ELSE c

\* str.upper()
Upper(s) == [i \in 1..Len(s) |-> UpperChar(s[i])]

\* The pieces input texts are put together from
Frags == {
    <<"w","h","o"," ","c","r","e","a","t","e","d"," ","y","o","u">>, <<"c","o","n","t","a","c","t"," ","i","n","f","o">>, <<"h","o","w"," ","t","o"," ","c","o","n","t","a","c","t"," ","o","k","a",
        "f","o","r">>,
    <<"u","n","i","z","i","k">>, <<"w","h","a","t">>, <<"c","o","m","p","a","r","e">>, <<"e","x","a","m">>, <<"t","e","l","l"," ","m","e"," ","a"," ","j","o","k","e">>,
    <<" ">>, <<"s">>, <<"?">>, <<"u","n","U+0131","z","U+0131","k">> }

RECURSIVE Flatten(_)
Flatten(fs) == IF fs = <<>> THEN <<>> ELSE Head(fs) \o Flatten(Tail(fs))

FragTexts ==
    {Flatten(fs) : fs \in UNION {[1..k -> Frags] : k \in 0..MaxFrags}}

\* Every phrase of the classifier's tables, alone and inside a longer text
Vocabulary ==
    CreatorPhrases \cup CreatorInfoPhrases \cup InstitutionMarkers
        \cup LeadWords \cup EDU_KEYWORDS

VocabTexts ==
    {pre \o v \o post :
        v \in Vocabulary, pre \in {<<>>, <<"x">>, <<"\n","\t">>},
        post \in {<<>>, <<"x">>, <<" ","x">>}}

\* The texts the classifier is checked on: as written and in capitals
AllTexts ==
    LET base == FragTexts \cup VocabTexts
    IN  base \cup {Upper(t) : t \in base}

\* The texts of the messages of the process
SampleTexts == {
    <<"w","h","o"," ","i","s"," ","y","o","u","r"," ","c","r","e","a","t","o",
        "r">>, <<"c","o","n","t","a","c","t"," ","i","n","f","o">>, <<"t","e","l","l"," ","m","e"," ","a"," ","j","o","k","e">>,
    <<"W","h","a","t"," ","i","s"," ","t","h","e"," ","d","e","f","i","n","i",
        "t","i","o","n"," ","o","f"," ","e","n","t","r","o","p","y","?">> }

EduText == <<"W","h","a","t"," ","i","s"," ","t","h","e"," ","d","e","f","i","n","i",
        "t","i","o","n"," ","o","f"," ","e","n","t","r","o","p","y","?">>

\* A backend output of n characters that are not whitespace
BodyChars == <<"a","b","c">>
Body(n) == [i \in 1..n |-> BodyChars[(i % 3) + 1]]

\* k whitespace characters
PadChars == <<" ", "\n">>
Pad(k) == [i \in 1..k |-> PadChars[(i % 2) + 1]]

ReprOutput == <<"c","a","n","d","i","d","a","t","e","s","=","[","]"," ","u","s","a","g",
        "e","_","m","e","t","a","d","a","t","a","=","N","o","n","e">>

\* The lengths of backend outputs: around the cut and around the limit
BodyLens ==
    {0, 1, CutLen - 1, CutLen, CutLen + 1, MaxReplyLen - 1, MaxReplyLen,
     MaxReplyLen + 1, MaxReplyLen + MaxPad, MaxReplyLen + 20}

PaddedOutputs ==
    {Pad(l) \o Body(n) \o Pad(r) :
        n \in BodyLens, l \in 0..MaxPad, r \in 0..MaxPad}

\* Responses with a text, and responses without one whose str() is read
AllResponses ==
    {[text |-> o, output |-> ReprOutput] : o \in PaddedOutputs}
        \cup {[text |-> <<>>, output |-> o] : o \in PaddedOutputs \ {<<>>}}

ShortResponse ==
    [text |-> <<" ","E","n","t","r","o","p","y"," ","m","e","a","s","u","r","e","s"," ",
        "d","i","s","o","r","d","e","r",".","\n">>, output |-> ReprOutput]

SampleResponses == {
    ShortResponse,
    [text |-> Body(MaxReplyLen + 1), output |-> ReprOutput],
    [text |-> <<>>, output |-> ReprOutput] }

-----------------------------------------------------------------------------
(* Specifications *)

\* The bot process: messages arrive, are queued and handled
Next ==
    \E m \in Msgs :
        \/ Receive(m, SampleTexts)
        \/ Start(m)
        \/ BackendSuccess(m, SampleResponses)
        \/ BackendFailure(m)

Spec == Init /\ [][Next]_vars

\* The event loop runs the handler of the oldest queued update whenever it
\* is free.  Nothing is assumed about the backend.
LiveSpec == Spec /\ \A m \in Msgs : WF_vars(Start(m))

\* One message, over all the texts of the classifier
NextClassify ==
    \/ Receive(1, AllTexts)
    \/ Start(1)
    \/ BackendSuccess(1, {ShortResponse})
    \/ BackendFailure(1)

ClassifySpec == Init /\ [][NextClassify]_vars

\* One educational message, over all the backend responses
NextAnswer ==
    \/ Receive(1, {EduText})
    \/ Start(1)
    \/ BackendSuccess(1, AllResponses)
    \/ BackendFailure(1)

AnswerSpec == Init /\ [][NextAnswer]_vars

-----------------------------------------------------------------------------
(* Notions the claims are stated in *)

\* the backend answered message m / failed on it
Answered(m) == pc[m] = "done" /\ resp[m] # NoResp
Failed(m) == pc[m] = "done" /\ err[m] # "none"

\* handling of m finished with one reply sent
Responded(m) == pc[m] = "done" /\ ~raised[m] /\ Len(replies[m]) = 1

\* the raw backend output: the text of the response, or its str()
RawOutput(r) == IF r.text # <<>> THEN r.text ELSE r.output

\* whitespace at the two ends of s, counted
LeadWs(s) == Cardinality({i \in 1..Len(s) : \A j \in 1..i : IsSpace(s[j])})
TrailWs(s) ==
    Cardinality({i \in 1..Len(s) : \A j \in i..Len(s) : IsSpace(s[j])})

\* s without the whitespace at its two ends
Stripped(s) ==
    IF LeadWs(s) = Len(s) THEN <<>>
    ELSE SubSeq(s, LeadWs(s) + 1, Len(s) - TrailWs(s))

\* the first 3990 characters of a followed by the marker
CutAndMarked(a) == SubSeq(a, 1, CutLen) \o TruncationMarker

-----------------------------------------------------------------------------
(* C1 *)

\* C1: on the Educational path with backend success, the reply sent has at
\* most 4000 characters, whatever the length of the backend output.
C1_ReplyWithinLimit ==
    \A m \in Msgs :
        Answered(m) =>
            \A i \in 1..Len(replies[m]) : Len(replies[m][i]) <= MaxReplyLen

-----------------------------------------------------------------------------
(* C2 *)

\* C2 as stated: when the raw backend output is longer than 4000 characters
\* the reply is the first 3990 characters of the stripped output followed by
\* the marker; otherwise it is the stripped output unchanged.
C2_RawThreshold ==
    \A m \in Msgs :
        Answered(m) =>
            LET raw == RawOutput(resp[m])
            IN  replies[m] =
                    << IF Len(raw) > MaxReplyLen
                       THEN CutAndMarked(Stripped(raw))
                       ELSE Stripped(raw) >>

\* C2 amended: when the whitespace-stripped backend output is longer than
\* 4000 characters the reply is its first 3990 characters followed by the
\* marker; when the stripped output is not longer than 4000 characters
\* (4000 exactly included, and also when only the raw output is longer) the
\* reply is the stripped output unchanged, with no marker.
C2_StrippedThreshold ==
    \A m \in Msgs :
        Answered(m) =>
            LET a == Stripped(RawOutput(resp[m]))
            IN  replies[m] =
                    << IF Len(a) > MaxReplyLen THEN CutAndMarked(a) ELSE a >>

\* A padded output longer than 4000 characters after stripping was cut and
\* marked
C2_Witness ==
    \E m \in Msgs :
        /\ Answered(m)
        /\ LeadWs(RawOutput(resp[m])) > 0
        /\ Len(Stripped(RawOutput(resp[m]))) > MaxReplyLen
        /\ Len(replies[m]) = 1
        /\ Len(replies[m][1]) = CutLen + Len(TruncationMarker)

-----------------------------------------------------------------------------
(* C3 *)

\* C3: when the backend call of a message fails, handle_message does not
\* raise to its caller, the failure is logged, and the one reply sent is the
\* fixed apology string.
C3_FailureGivesApology ==
    \A m \in Msgs :
        Failed(m) =>
            /\ ~raised[m]
            /\ logged[m] = 1
            /\ replies[m] = <<ApologyReply>>

\* A call that raised a timeout was answered with the apology
C3_Witness ==
    \E m \in Msgs :
        /\ pc[m] = "done"
        /\ err[m] = "TimeoutError"
        /\ replies[m] = <<ApologyReply>>
        /\ logged[m] = 1

-----------------------------------------------------------------------------
(* C4 *)

\* C4: handling a message makes exactly one backend call if its intent is
\* Educational, whether the call succeeds or fails, and none if its intent
\* is CreatorIdentity, CreatorContact or Rejected.
C4_BackendCalls ==
    \A m \in Msgs :
        /\ calls[m] <= 1
        /\ pc[m] \in {"backend", "done"} =>
              calls[m] = IF Classify(text[m]) = "Educational" THEN 1 ELSE 0

\* One message was handled with a failed call and another with no call
C4_Witness ==
    \E m, n \in Msgs :
        /\ Failed(m) /\ calls[m] = 1
        /\ pc[n] = "done" /\ calls[n] = 0

-----------------------------------------------------------------------------
(* C5 *)

\* C5: on every path of handle_message exactly one reply has been sent when
\* handling finishes, and none is sent before.
C5_ExactlyOneReply ==
    \A m \in Msgs :
        Len(replies[m]) = IF pc[m] = "done" THEN 1 ELSE 0

\* One message was refused and another answered by the backend, each with
\* its reply
C5_Witness ==
    \E m, n \in Msgs :
        /\ pc[m] = "done" /\ replies[m] = <<RefusalReply>>
        /\ Answered(n) /\ Len(replies[n]) = 1

-----------------------------------------------------------------------------
(* C6 *)

\* the reply, and the backend call, each intent stands for
IntentTaken(m) ==
    IF calls[m] > 0 THEN "Educational"
    ELSE IF replies[m] = <<IdentityReply>> THEN "CreatorIdentity"
    ELSE IF replies[m] = <<ContactReply>> THEN "CreatorContact"
    ELSE IF replies[m] = <<RefusalReply>> THEN "Rejected"
    ELSE "none"

HasPhraseOf(txt, phrases) == \E p \in phrases : Contains(Lower(txt), p)

\* C6: the checks run in the order identity, contact, educational,
\* rejection: a text with a creator-identity phrase gets the identity reply
\* whatever else it matches, and a text with a contact phrase and no
\* identity phrase gets the contact reply whatever else it matches.
C6_Priority ==
    \A m \in Msgs :
        pc[m] \in {"backend", "done"} =>
            /\ IntentTaken(m) # "none"
            /\ HasPhraseOf(text[m], CreatorPhrases) =>
                  IntentTaken(m) = "CreatorIdentity"
            /\ /\ ~HasPhraseOf(text[m], CreatorPhrases)
               /\ HasPhraseOf(text[m], CreatorInfoPhrases)
               => IntentTaken(m) = "CreatorContact"

\* A text with an identity phrase, a contact phrase and an educational
\* keyword got the identity reply
C6_Witness ==
    \E m \in Msgs :
        /\ pc[m] = "done"
        /\ HasPhraseOf(text[m], CreatorPhrases)
        /\ HasPhraseOf(text[m], CreatorInfoPhrases)
        /\ HasPhraseOf(text[m], EDU_KEYWORDS)
        /\ replies[m] = <<IdentityReply>>

-----------------------------------------------------------------------------
(* C7 *)

\* p occurs in t
HasSubstring(t, p) ==
    \E i \in 1..(Len(t) + 1) :
        i + Len(p) - 1 <= Len(t) /\ SubSeq(t, i, i + Len(p) - 1) = p

\* t, after its leading whitespace, starts with a lead word that ends at a
\* word boundary
StartsWithLeadWord(t) ==
    LET u == SubSeq(t, LeadWs(t) + 1, Len(t))
    IN  \E w \in LeadWords :
            /\ Len(w) <= Len(u)
            /\ SubSeq(u, 1, Len(w)) = w
            /\ Len(u) > Len(w) => ~IsWordChar(u[Len(w) + 1])

EducationalTrigger(txt) ==
    LET t == Lower(txt)
    IN  \/ \E mk \in InstitutionMarkers : HasSubstring(t, mk)
        \/ StartsWithLeadWord(t)
        \/ \E kw \in EDU_KEYWORDS : HasSubstring(t, kw)

CreatorTrigger(txt) ==
    \E p \in CreatorPhrases \cup CreatorInfoPhrases :
        HasSubstring(Lower(txt), p)

\* C7: the intent is Educational if and only if no creator phrase matches
\* and the text has an institution marker, or starts (after whitespace) with
\* a lead word at a word boundary, or contains a keyword; every other text
\* with no creator phrase is Rejected, the empty string among them.
C7_EducationalIff ==
    \A m \in Msgs :
        pc[m] \in {"backend", "done"} =>
            /\ IntentTaken(m) = "Educational"
                  <=> (~CreatorTrigger(text[m]) /\ EducationalTrigger(text[m]))
            /\ ~CreatorTrigger(text[m]) /\ ~EducationalTrigger(text[m])
                  => IntentTaken(m) = "Rejected"
            /\ text[m] = <<>> => IntentTaken(m) = "Rejected"

\* A text that starts with whitespace and a lead word, and has neither a
\* marker nor a keyword, went to the backend
C7_Witness ==
    \E m \in Msgs :
        /\ pc[m] = "backend"
        /\ Len(text[m]) > 0 /\ IsSpace(text[m][1])
        /\ StartsWithLeadWord(Lower(text[m]))
        /\ ~HasPhraseOf(text[m], InstitutionMarkers \cup EDU_KEYWORDS)

-----------------------------------------------------------------------------
(* C8 *)

\* a-z to A-Z and nothing else / the case of every ASCII letter changed /
\* the case of the letter at position i changed
AsciiUpperChar(c) ==
    IF c \in Range(LowerLetters) THEN UpperLetters[IndexIn(c, LowerLetters)]
    ELSE c
AsciiSwapChar(c) ==
    IF c \in Range(UpperLetters) THEN LowerChar(c) ELSE AsciiUpperChar(c)
AsciiUpper(s) == [i \in 1..Len(s) |-> AsciiUpperChar(s[i])]
AsciiSwap(s) == [i \in 1..Len(s) |-> AsciiSwapChar(s[i])]
AsciiSwapAt(s, i) == [s EXCEPT ![i] = AsciiSwapChar(@)]

\* C8 as stated: changing the case of the letters of a text (str.upper(),
\* str.lower()) leaves the intent unchanged.
C8_AnyCaseChange ==
    \A m \in Msgs :
        pc[m] \in {"backend", "done"} =>
            /\ Classify(Upper(text[m])) = IntentTaken(m)
            /\ Classify(Lower(text[m])) = IntentTaken(m)

\* C8 amended: changing the case of ASCII letters (A-Z, a-z) of a text, one
\* of them or all of them, leaves the intent unchanged.
C8_AsciiCaseChange ==
    \A m \in Msgs :
        pc[m] \in {"backend", "done"} =>
            /\ Classify(AsciiUpper(text[m])) = IntentTaken(m)
            /\ Classify(Lower(text[m])) = IntentTaken(m)
            /\ Classify(AsciiSwap(text[m])) = IntentTaken(m)
            /\ \A i \in 1..Len(text[m]) :
                  AsciiSwapChar(text[m][i]) # text[m][i] =>
                      Classify(AsciiSwapAt(text[m], i)) = IntentTaken(m)

\* A text in capitals with a creator-identity phrase got the identity reply
C8_Witness ==
    \E m \in Msgs :
        /\ pc[m] = "done"
        /\ text[m] # <<>>
        /\ \A i \in 1..Len(text[m]) : text[m][i] \notin Range(LowerLetters)
        /\ \E i \in 1..Len(text[m]) : text[m][i] \in Range(UpperLetters)
        /\ replies[m] = <<IdentityReply>>

-----------------------------------------------------------------------------
(* C9 *)

\* C9: while the handler of one message waits for the backend, the handler
\* of another delivered message can still be started.
C9_NonBlocking ==
    \A m, n \in Msgs :
        (pc[m] = "backend" /\ queue # <<>> /\ n = Head(queue))
            => ENABLED Start(n)

-----------------------------------------------------------------------------
(* C10 *)

BackendAnswers == []<>(loop = 0)

====
